---- MODULE Spec2Model ----
(***************************************************************************)
(* Heart-count alert monitor (puppeteer97/Field103).                        *)
(*                                                                         *)
(* The module models the alert-deduplication engine of the repository's    *)
(* monitor variants:                                                       *)
(*   - the timestamped-state variant (src/unnamed/part_002): one Map       *)
(*     alertedState of { primaryAt, secondaryAt, lastValue } objects, a     *)
(*     global ntfy rate limiter and a periodic cleanup;                     *)
(*   - the two-map variant (src/monitor.js 346-382, src/unnamed/part_000    *)
(*     217-253): alertedMessages / alertedMessagesSecond holding the last   *)
(*     alerted value per tier.                                              *)
(*                                                                         *)
(* processHeartsFound is an async function: everything between two awaits   *)
(* runs atomically on the event loop, so each action below is one such      *)
(* synchronous stretch.                                                     *)
(***************************************************************************)
EXTENDS Integers, Sequences, FiniteSets, TLC

(***************************************************************************)
(* Bounds of the model.                                                     *)
(***************************************************************************)
\* Capacity of the alert-state maps. The code's literals are 300
\* (alertedState) and 200 (alertedMessages, alertedMessagesSecond); the
\* model keeps the comparison `size > capacity` and scales the number.
Capacity == 1

\* Number of processHeartsFound invocations in one behaviour when the
\* gateway handler and the polling passes overlap.
MaxCalls == 2

\* Number of processHeartsFound invocations in one behaviour when they run
\* one after another.
MaxSeqCalls == 3

\* Length of the labels the parser is tried on.
MaxLabelLen == 3

\* Rows of a message, and components of a row, in the messages handled.
MaxRows == 2

MaxComps == 1

\* Messages one fetch of the single-slot polling variant returns (the code
\* keeps the first 5).
MaxMsgs == 2

(***************************************************************************)
(* Program constants.                                                       *)
(***************************************************************************)
NTFY_MIN_GAP_MS == 1500

POST_TIMEOUT_MS == 10000

PRIMARY_ABOVE == 599

\* The primary threshold of the two-map variant.
TWO_MAP_PRIMARY_ABOVE == 300

\* The threshold of the single-map variant.
SINGLE_MAP_ABOVE == 150

\* The threshold of the single-slot polling variant.
CHECK_LOOP_ABOVE == 150

SECONDARY_ABOVE == 100

SECONDARY_BELOW == 600

CLEANUP_WINDOW_MS == 15 * 60000

Tiers == {"primary", "secondary"}

\* Message ids: one more than the store can hold, so that eviction happens.
Ids == 1 .. (Capacity + 1)

\* Representative values (Math.max of the extracted hearts): the two band
\* edges (100 matches nothing, 600 is primary only) and two values inside
\* the secondary band.
Values == {100, 250, 350, 600}

Procs == 1 .. (IF MaxCalls >= MaxSeqCalls THEN MaxCalls ELSE MaxSeqCalls)

\* Date.now() when the process starts: epoch milliseconds, far larger than
\* the cleanup window.
StartTime == 2 * CLEANUP_WINDOW_MS

\* The behaviours cover the first cleanup window after the start and the
\* window after it: time does not pass beyond this instant.
Horizon == StartTime + 2 * CLEANUP_WINDOW_MS

VARIABLES
    clock,            \* Date.now()
    lastNtfySendAt,   \* global ntfy rate limiter
    alertedState,     \* the Map, in insertion order: <<[id, obj], ...>>
    heap,             \* the state objects: heap[p] is the object call p created
    calls,            \* the processHeartsFound invocations, in arrival order
    removed,          \* history: per id, how often its entry was evicted / swept
    settled,          \* history: the call whose post settled last, and how
    lastPostAt,       \* history: when axios.post was last called (0: never)
    alertedMessages,        \* two-map variant: primary Map, <<[id, obj], ...>>
    alertedMessagesSecond,  \* two-map variant: secondary Map
    evals,            \* two-map and single-map variants: the processHeartsFound
                      \* calls, in order; single-slot variant: the passes
    label,            \* parser: the argument of safeParseIntFromLabel
    parsed,           \* parser: whether it has returned, and what
    msg,              \* handlers: the message being handled
    handled,          \* handlers: history of the handlings of msg
    lastAlertMessageId,  \* single-slot variant: id of the last alert
    lastAlertValue       \* single-slot variant: value of the last alert

\* The variables of the two-map variant.
twoMapVars == <<alertedMessages, alertedMessagesSecond, evals>>

\* The variables of the label parser and of the message handlers.
extractVars == <<label, parsed, msg, handled>>

\* The variables of the single-slot polling variant.
checkLoopVars == <<lastAlertMessageId, lastAlertValue>>

vars == <<clock, lastNtfySendAt, alertedState, heap, calls, removed, settled,
          lastPostAt, alertedMessages, alertedMessagesSecond, evals,
          label, parsed, msg, handled, lastAlertMessageId, lastAlertValue>>

(***************************************************************************)
(* Helpers                                                                  *)
(***************************************************************************)
Max(a, b) == IF a >= b THEN a ELSE b

Keys(s) == {s[i].id : i \in 1 .. Len(s)}

KeySeq(s) == [i \in 1 .. Len(s) |-> s[i].id]

\* Map.prototype.get: the object stored under id (only used when present).
MapGet(s, id) == (CHOOSE i \in 1 .. Len(s) : s[i].id = id)

\* Variant: alertedState.set(messageId, state) left out: the entry is never stored.
MapSetDropped(s, id, o) == s

\* Map.prototype.set: an existing key keeps its position, a new key is
\* appended.
MapSet(s, id, o) ==
    IF id \in Keys(s)
    THEN [i \in 1 .. Len(s) |-> IF s[i].id = id THEN [id |-> id, obj |-> o] ELSE s[i]]
    ELSE Append(s, [id |-> id, obj |-> o])

\* { primaryAt: 0, secondaryAt: 0, lastValue: null }; lastValue is <<>> for
\* null and <<v>> for the number v.
FreshState == [primaryAt |-> 0, secondaryAt |-> 0, lastValue |-> <<>>]

\* A call: its arguments (id, maxValue) and caller (src), its locals while
\* it runs (now, ref: the object `state` refers to, tier: the send it awaits,
\* wakeAt, postAt), and what it did (posted: how often it called axios.post
\* per tier; fresh: there was no entry when it began; ep: `removed` of its
\* id when it began; after: the calls that had returned when it began;
\* read: the content of `state` as the call first read it).
\* The locals other than ref are dropped when the call returns.
IdleCall ==
    [pc |-> "idle", src |-> "none", id |-> 0, maxValue |-> 0, now |-> 0,
     ref |-> 0, tier |-> "none", wakeAt |-> 0, postAt |-> 0,
     posted |-> [t \in Tiers |-> 0], fresh |-> FALSE,
     ep |-> [evict |-> 0, sweep |-> 0], after |-> {}, read |-> FreshState]

Return(c) ==
    [c EXCEPT !.pc = "done", !.now = 0, !.tier = "none",
              !.wakeAt = 0, !.postAt = 0]

InFlight(c) == c.pc \in {"sleep", "posting"}

\* state.lastValue === maxValue
SameValue(st, v) == st.lastValue = <<v>>

\* Variant: the primary band starting at 600 exclusive.
MatchesPrimaryAbove600(v) == v > SECONDARY_BELOW

\* maxValue > 599
MatchesPrimary(v) == v > PRIMARY_ABOVE

\* Variant: the secondary band including 100.
MatchesSecondaryFrom100(v) == v >= SECONDARY_ABOVE /\ v < SECONDARY_BELOW

\* Variant: the secondary band including 600.
MatchesSecondaryThrough600(v) == v > SECONDARY_ABOVE /\ v <= SECONDARY_BELOW

\* maxValue > 100 && maxValue < 600
MatchesSecondary(v) == v > SECONDARY_ABOVE /\ v < SECONDARY_BELOW

Matches(t, v) == IF t = "primary" THEN MatchesPrimary(v) ELSE MatchesSecondary(v)

\* Variant: !state.primaryAt read as always true: the once-per-tier test is lost.
NotFiredAlways(at) == at = at

\* !state.primaryAt, !state.secondaryAt
NotFired(at) == at = 0

Marker(st, t) == IF t = "primary" THEN st.primaryAt ELSE st.secondaryAt

\* Variant: setting a tier's timestamp clears the other tier's.
MarkFiredOnly(st, t, now) ==
    IF t = "primary" THEN [st EXCEPT !.primaryAt = now, !.secondaryAt = 0]
                     ELSE [st EXCEPT !.secondaryAt = now, !.primaryAt = 0]

\* state.primaryAt = now; state.secondaryAt = now
MarkFired(st, t, now) ==
    IF t = "primary" THEN [st EXCEPT !.primaryAt = now]
                     ELSE [st EXCEPT !.secondaryAt = now]

\* delta < NTFY_MIN_GAP_MS: the send must wait
MustWait(delta) == delta < NTFY_MIN_GAP_MS

\* sleep(NTFY_MIN_GAP_MS - delta)
WaitFor(delta) == NTFY_MIN_GAP_MS - delta

\* Variant: the cap tested one entry too late.
OverCapacityLate(s) == Len(s) > Capacity + 1

\* if (alertedState.size > 300)
OverCapacity(s) == Len(s) > Capacity

\* Variant: the newest key deleted instead of the oldest.
DeleteNewest(s) == SubSeq(s, 1, Len(s) - 1)

\* Variant: alertedState.clear(): every entry dropped when the cap is passed.
DeleteAll(s) == SubSeq(s, 1, 0)

\* alertedState.delete(alertedState.keys().next().value)
DeleteOldest(s) == Tail(s)

\* Variant: Math.min in place of Math.max: the earlier timestamp decides.
ExpiredByEarlier(st, now) ==
    now - (IF st.primaryAt <= st.secondaryAt THEN st.primaryAt ELSE st.secondaryAt)
        > CLEANUP_WINDOW_MS

\* Variant: an entry that never fired (both timestamps 0) is kept.
ExpiredIfFired(st, now) ==
    /\ Max(st.primaryAt, st.secondaryAt) # 0
    /\ now - Max(st.primaryAt, st.secondaryAt) > CLEANUP_WINDOW_MS

\* now - Math.max(state.primaryAt, state.secondaryAt) > 15 * 60_000
Expired(st, now) == now - Max(st.primaryAt, st.secondaryAt) > CLEANUP_WINDOW_MS

(***************************************************************************)
(* safeParseIntFromLabel (src/unnamed/part_002 48-64). A string is the      *)
(* sequence of its characters; a label is null or a string; a parse result  *)
(* is <<>> for NaN and <<n>> for the number n.                              *)
(***************************************************************************)
NullLabel == [isNull |-> TRUE, text |-> <<>>]

Str(chars) == [isNull |-> FALSE, text |-> chars]

NotANumber == <<>>

DigitChars == <<"0", "1", "2", "3", "4", "5", "6", "7", "8", "9">>

IsDigit(c) == \E i \in 1 .. 10 : DigitChars[i] = c

DigitVal(c) == (CHOOSE i \in 1 .. 10 : DigitChars[i] = c) - 1

\* Variant: the letters k and m stripped as well.
KeptDigitsAndDot(c) == IsDigit(c) \/ c = "."

\* The characters the regular expression /[^0-9kKmM.]/g leaves in place.
Kept(c) == IsDigit(c) \/ c \in {"k", "K", "m", "M", "."}

\* .replace(/[^0-9kKmM.]/g, "")
Strip(s) == SelectSeq(s, Kept)

\* .trim()
RECURSIVE TrimStart(_)
TrimStart(s) ==
    IF s = <<>> THEN s
    ELSE IF Head(s) = " " THEN TrimStart(Tail(s)) ELSE s

RECURSIVE TrimEnd(_)
TrimEnd(s) ==
    IF s = <<>> THEN s
    ELSE IF s[Len(s)] = " " THEN TrimEnd(SubSeq(s, 1, Len(s) - 1)) ELSE s

Trim(s) == TrimEnd(TrimStart(s))

\* .toLowerCase(), on the letters that survive the strip
LowerChar(c) == IF c = "K" THEN "k" ELSE IF c = "M" THEN "m" ELSE c

ToLowerCase(s) == [i \in 1 .. Len(s) |-> LowerChar(s[i])]

\* Length of the longest prefix of s made of digits.
DigitPrefixLen(s) ==
    CHOOSE n \in 0 .. Len(s) :
        /\ \A i \in 1 .. n : IsDigit(s[i])
        /\ IF n = Len(s) THEN TRUE ELSE ~IsDigit(s[n + 1])

RECURSIVE DecimalValue(_)
DecimalValue(ds) ==
    IF ds = <<>> THEN 0
    ELSE 10 * DecimalValue(SubSeq(ds, 1, Len(ds) - 1)) + DigitVal(ds[Len(ds)])

RECURSIVE Pow10(_)
Pow10(n) == IF n = 0 THEN 1 ELSE 10 * Pow10(n - 1)

\* parseInt(s, 10) on a string of digits, k, m and dots: the leading digits.
ParseInt(s) ==
    LET n == DigitPrefixLen(s)
    IN  IF n = 0 THEN NotANumber ELSE <<DecimalValue(SubSeq(s, 1, n))>>

\* parseFloat(s) on such a string: digits, then optionally a dot and digits,
\* with at least one digit; the value is the fraction num / den.
ParseFloat(s) ==
    LET a    == DigitPrefixLen(s)
        rest == SubSeq(s, a + 1, Len(s))
        dot  == IF rest = <<>> THEN FALSE ELSE Head(rest) = "."
        frac == IF dot THEN Tail(rest) ELSE <<>>
        b    == DigitPrefixLen(frac)
    IN  IF a + b = 0
        THEN NotANumber
        ELSE <<[num |-> DecimalValue(SubSeq(s, 1, a)) * Pow10(b)
                            + DecimalValue(SubSeq(frac, 1, b)),
                den |-> Pow10(b)]>>

\* Math.round(n * factor), n = num / den not negative: halves round up.
RoundTimes(n, factor) == (2 * n.num * factor + n.den) \div (2 * n.den)

\* s.endsWith("k") / s.endsWith("m"), then parseFloat(s.slice(0, -1))
Scaled(s, factor) ==
    LET n == ParseFloat(SubSeq(s, 1, Len(s) - 1))
    IN  IF n = NotANumber THEN NotANumber ELSE <<RoundTimes(n[1], factor)>>

SafeParseIntFromLabel(l) ==
    IF l.isNull THEN NotANumber
    ELSE IF l.text = <<>> THEN NotANumber
    ELSE LET s == ToLowerCase(Trim(Strip(l.text)))
         IN  IF s = <<>> THEN NotANumber
             ELSE IF s[Len(s)] = "k" THEN Scaled(s, 1000)
             ELSE IF s[Len(s)] = "m" THEN Scaled(s, 1000000)
             ELSE ParseInt(s)

\* The labels the parser is applied to: the strings of at most MaxLabelLen
\* characters over LabelChars, null, and the documented examples.
LabelChars == {"1", "5", ".", "k", "M", "a"}

RECURSIVE StringsUpTo(_)
StringsUpTo(n) ==
    IF n = 0 THEN {<<>>}
    ELSE LET shorter == StringsUpTo(n - 1)
         IN  shorter \cup {Append(t, c) : t \in shorter, c \in LabelChars}

ExampleLabels ==
    {<<"1", "5", "0">>, <<"1", ".", "5", "k">>, <<"2", "m">>,
     <<"heart", "4", "2">>, <<"a", "b", "c">>, <<" ", "7", " ">>}

Labels ==
    {NullLabel} \cup {Str(t) : t \in StringsUpTo(MaxLabelLen) \cup ExampleLabels}

NotParsed == [done |-> FALSE, val |-> NotANumber]

(***************************************************************************)
(* extractHeartsFromMessage (src/unnamed/part_002 66-87) and the two        *)
(* handlers that call it. A message is the sequence of its rows; a row      *)
(* has components or not; a component has a heart emoji or not, and a       *)
(* label.                                                                   *)
(***************************************************************************)
\* comp.emoji && String(comp.emoji.name).includes(heart)
HasHeart(comp) == comp.heart

\* comp.label && /[0-9]/.test(comp.label)
LooksNumeric(comp) ==
    /\ ~comp.label.isNull
    /\ \E i \in 1 .. Len(comp.label.text) : IsDigit(comp.label.text[i])

\* The inner loop over row.components: the values a row contributes.
RECURSIVE RowValues(_)
RowValues(comps) ==
    IF comps = <<>> THEN <<>>
    ELSE LET comp == Head(comps)
             val  == SafeParseIntFromLabel(comp.label)
         IN  IF ~HasHeart(comp) /\ ~LooksNumeric(comp)
             THEN RowValues(Tail(comps))
             ELSE IF val = NotANumber
                  THEN RowValues(Tail(comps))
                  ELSE <<val[1]>> \o RowValues(Tail(comps))

\* The outer loop over msg.components, skipping a row without components.
RECURSIVE MessageValues(_)
MessageValues(rows) ==
    IF rows = <<>> THEN <<>>
    ELSE IF ~Head(rows).has
         THEN MessageValues(Tail(rows))
         ELSE RowValues(Head(rows).comps) \o MessageValues(Tail(rows))

\* An element of row.components that is null: reading comp.emoji throws a
\* TypeError.
NullComponent == [isNull |-> TRUE]

\* Whether the loops reach an element that throws.
Throws(rows) ==
    \E r \in 1 .. Len(rows) :
        /\ rows[r].has
        /\ \E c \in 1 .. Len(rows[r].comps) : rows[r].comps[c] = NullComponent

\* The try block (lines 68-82): it returns the values, or throws and the
\* values collected so far are lost.
TryBlock(rows) ==
    IF Throws(rows)
    THEN [raised |-> TRUE, values |-> <<>>]
    ELSE [raised |-> FALSE, values |-> MessageValues(rows)]

\* Variant: no catch block: the error goes on to the caller.
Rethrow(r) == r

\* catch (err) { ...; return []; }
Catch(r) == IF r.raised THEN [raised |-> FALSE, values |-> <<>>] ELSE r

\* What a call of extractHeartsFromMessage ends with.
ExtractOutcome(rows) == Catch(TryBlock(rows))

\* extractHeartsFromMessage(msg), msg.components || [] being the rows.
ExtractHeartsFromMessage(rows) == ExtractOutcome(rows).values

\* Variant: the smallest value taken.
MinOf(vals) == CHOOSE v \in {vals[i] : i \in 1 .. Len(vals)} :
                   \A i \in 1 .. Len(vals) : v <= vals[i]

\* Math.max(...hearts), hearts not empty
MaxOf(vals) == CHOOSE v \in {vals[i] : i \in 1 .. Len(vals)} :
                   \A i \in 1 .. Len(vals) : v >= vals[i]

\* The components the messages are built from: a labelled button without
\* heart and without digit, a heart without label, a plain numeric button
\* and a heart with a scaled label.
Components ==
    {[heart |-> FALSE, label |-> Str(<<"a">>)],
     [heart |-> TRUE,  label |-> NullLabel],
     [heart |-> FALSE, label |-> Str(<<"4", "2">>)],
     [heart |-> TRUE,  label |-> Str(<<"1", ".", "5", "k">>)]}

RECURSIVE SeqsUpTo(_, _)
SeqsUpTo(S, n) ==
    IF n = 0 THEN {<<>>}
    ELSE LET shorter == SeqsUpTo(S, n - 1)
         IN  shorter \cup {Append(t, x) : t \in shorter, x \in S}

Rows ==
    {[has |-> FALSE, comps |-> <<>>]}
        \cup {[has |-> TRUE, comps |-> cs] : cs \in SeqsUpTo(Components, MaxComps)}

Messages == SeqsUpTo(Rows, MaxRows)

\* Messages as a raw REST body may hold them: an element of a row may be
\* null.
RawRows ==
    {[has |-> FALSE, comps |-> <<>>]}
        \cup {[has |-> TRUE, comps |-> cs] :
                 cs \in SeqsUpTo(Components \cup {NullComponent}, MaxComps)}

RawMessages == SeqsUpTo(RawRows, MaxRows)

(***************************************************************************)
(* The synchronous stretches of processHeartsFound and sendNtfy, as         *)
(* functions on a world w = [calls, heap, store, removed].                   *)
(***************************************************************************)
World ==
    [calls |-> calls, heap |-> heap, store |-> alertedState,
     removed |-> removed, lastPostAt |-> lastPostAt]

\* axios.post(url, ...) is called.
IssuePost(p, t, w) ==
    [w EXCEPT !.calls[p].pc = "posting",
              !.calls[p].tier = t,
              !.calls[p].wakeAt = 0,
              !.calls[p].postAt = clock,
              !.calls[p].posted[t] = @ + 1,
              !.lastPostAt = clock]

\* sendNtfy up to its first await: either sleep, or axios.post is issued at
\* once. lastSend is lastNtfySendAt as the call reads it.
EnterSendNtfy(p, t, w, lastSend) ==
    LET delta == clock - lastSend
    IN  IF MustWait(delta)
        THEN [w EXCEPT !.calls[p].pc = "sleep",
                       !.calls[p].tier = t,
                       !.calls[p].wakeAt = clock + WaitFor(delta)]
        ELSE IssuePost(p, t, w)

\* Lines 151-157: record the value, write the entry back, cap the memory.
Finish(p, w) ==
    LET c  == w.calls[p]
        h1 == [w.heap EXCEPT ![c.ref].lastValue = <<c.maxValue>>]
        s1 == MapSet(w.store, c.id, c.ref)
        over == OverCapacity(s1)
        s2 == IF over THEN DeleteOldest(s1) ELSE s1
        r2 == IF over
              THEN [w.removed EXCEPT ![s1[1].id].evict = @ + 1]
              ELSE w.removed
    IN  [w EXCEPT !.calls[p] = Return(c), !.heap = h1, !.store = s2,
                  !.removed = r2]

\* Lines 139-149: the secondary block.
SecondaryBlock(p, w, lastSend) ==
    LET c == w.calls[p]
    IN  IF MatchesSecondary(c.maxValue) /\ NotFired(w.heap[c.ref].secondaryAt)
        THEN EnterSendNtfy(p, "secondary", w, lastSend)
        ELSE Finish(p, w)

\* Lines 127-137: the primary block.
PrimaryBlock(p, w, lastSend) ==
    LET c == w.calls[p]
    IN  IF MatchesPrimary(c.maxValue) /\ NotFired(w.heap[c.ref].primaryAt)
        THEN EnterSendNtfy(p, "primary", w, lastSend)
        ELSE SecondaryBlock(p, w, lastSend)

\* Variant: an identical repeat refreshes the timestamps of the fired tiers.
BeginRefreshing(p, src, id, v, w) ==
    LET has == id \in Keys(w.store)
        ref == IF has THEN w.store[MapGet(w.store, id)].obj ELSE p
        c   == [IdleCall EXCEPT !.src = src, !.id = id, !.maxValue = v,
                                !.now = clock, !.ref = ref, !.fresh = ~has,
                                !.ep = w.removed[id],
                                !.after = {q \in Procs : w.calls[q].pc = "done"},
                                !.read = IF has THEN w.heap[ref] ELSE FreshState]
        h1  == IF has THEN w.heap ELSE [w.heap EXCEPT ![p] = FreshState]
        w1  == [w EXCEPT !.calls[p] = c, !.heap = h1]
    IN  IF SameValue(h1[ref], v)
        THEN [w1 EXCEPT !.calls[p] = Return(c),
                        !.heap[ref].primaryAt = IF @ = 0 THEN 0 ELSE clock,
                        !.heap[ref].secondaryAt = IF @ = 0 THEN 0 ELSE clock]
        ELSE PrimaryBlock(p, w1, lastNtfySendAt)

\* Lines 115-125: read the clock and the entry, drop an identical repeat.
Begin(p, src, id, v, w) ==
    LET has == id \in Keys(w.store)
        ref == IF has THEN w.store[MapGet(w.store, id)].obj ELSE p
        c   == [IdleCall EXCEPT !.src = src, !.id = id, !.maxValue = v,
                                !.now = clock, !.ref = ref, !.fresh = ~has,
                                !.ep = w.removed[id],
                                !.after = {q \in Procs : w.calls[q].pc = "done"},
                                !.read = IF has THEN w.heap[ref] ELSE FreshState]
        h1  == IF has THEN w.heap ELSE [w.heap EXCEPT ![p] = FreshState]
        w1  == [w EXCEPT !.calls[p] = c, !.heap = h1]
    IN  IF SameValue(h1[ref], v)
        THEN [w1 EXCEPT !.calls[p] = Return(c)]
        ELSE PrimaryBlock(p, w1, lastNtfySendAt)

\* sendNtfy after axios.post settled: lastNtfySendAt = Date.now() in the
\* try branch (ok) and in the catch branch (~ok).
LastSendAfter(ok, now) == IF ok THEN now ELSE now

\* Variant: the tier's timestamp set only when the post succeeded.
ResumeMarkOnSuccess(p, ok, w) ==
    LET c  == w.calls[p]
        w1 == IF ok THEN [w EXCEPT !.heap[c.ref] = MarkFired(@, c.tier, c.now)]
                    ELSE w
    IN  IF c.tier = "primary"
        THEN SecondaryBlock(p, w1, clock)
        ELSE Finish(p, w1)

\* Variant: sendNtfy posts again when the post failed, until one succeeds.
ResumeRetrying(p, ok, w) ==
    LET c  == w.calls[p]
        w1 == [w EXCEPT !.heap[c.ref] = MarkFired(@, c.tier, c.now)]
    IN  IF ~ok
        THEN [w EXCEPT !.calls[p].postAt = clock]
        ELSE IF c.tier = "primary"
             THEN SecondaryBlock(p, w1, clock)
             ELSE Finish(p, w1)

\* After `await sendNtfy(...)`: sendNtfy has caught a failed post, so the
\* call goes on the same way whether the post succeeded (ok) or not: set the
\* tier's timestamp and go on.
Resume(p, ok, w) ==
    LET c  == w.calls[p]
        w1 == [w EXCEPT !.heap[c.ref] = MarkFired(@, c.tier, c.now)]
    IN  IF c.tier = "primary"
        THEN SecondaryBlock(p, w1, clock)
        ELSE Finish(p, w1)

Install(w) ==
    /\ calls' = w.calls
    /\ heap' = w.heap
    /\ alertedState' = w.store
    /\ removed' = w.removed
    /\ lastPostAt' = w.lastPostAt

(***************************************************************************)
(* Actions                                                                  *)
(***************************************************************************)
\* Message ids are opaque: a behaviour names them in the order it first
\* uses them.
UsedIds == {calls[p].id : p \in {q \in Procs : calls[q].pc # "idle"}}

NextId(id) == IF id = 1 THEN TRUE ELSE (id - 1) \in UsedIds

\* Calls take the slots of `calls` in the order they arrive.
CanStart(p) ==
    /\ calls[p].pc = "idle"
    /\ IF p = 1 THEN TRUE ELSE calls[p - 1].pc # "idle"

ProcessHeartsFound(p, src, id, v) ==
    /\ CanStart(p)
    /\ NextId(id)
    /\ Install(Begin(p, src, id, v, World))
    /\ UNCHANGED <<clock, lastNtfySendAt, settled>>
    /\ UNCHANGED twoMapVars
    /\ UNCHANGED checkLoopVars
    /\ UNCHANGED <<label, parsed, msg>>

\* client.on("messageCreate"): extraction gave a non-empty list with
\* maximum v.
Gateway(p, id, v) ==
    /\ p <= MaxCalls
    /\ ProcessHeartsFound(p, "gateway", id, v)
    /\ UNCHANGED handled

\* One iteration of pollingLoop's for loop, of a pass that may overlap the
\* gateway handler or another pass.
Poll(p, id, v) ==
    /\ p <= MaxCalls
    /\ ProcessHeartsFound(p, "poll", id, v)
    /\ UNCHANGED handled

\* One iteration of pollingLoop's for loop when nothing else is in flight:
\* the loop awaits each processHeartsFound before the next.
SeqPoll(p, id, v) ==
    /\ p <= MaxSeqCalls
    /\ \A q \in Procs : ~InFlight(calls[q])
    /\ ProcessHeartsFound(p, "poll", id, v)
    /\ UNCHANGED handled

\* The timer of sleep() fires (no earlier than asked): axios.post is issued.
WakeUp(p) ==
    /\ calls[p].pc = "sleep"
    /\ clock >= calls[p].wakeAt
    /\ Install(IssuePost(p, calls[p].tier, World))
    /\ UNCHANGED <<clock, lastNtfySendAt, settled>>
    /\ UNCHANGED twoMapVars
    /\ UNCHANGED checkLoopVars
    /\ UNCHANGED extractVars

\* axios.post settles: resolved (ok) or rejected / timed out (~ok). Either
\* way lastNtfySendAt advances and processHeartsFound goes on.
PostReturn(p, ok) ==
    /\ calls[p].pc = "posting"
    /\ lastNtfySendAt' = LastSendAfter(ok, clock)
    /\ settled' = [call |-> p, ok |-> ok]
    /\ Install(Resume(p, ok, World))
    /\ UNCHANGED clock
    /\ UNCHANGED twoMapVars
    /\ UNCHANGED checkLoopVars
    /\ UNCHANGED extractVars

\* The for loop of the cleanup callback (lines 246-250) run at time now:
\* the entries it leaves.
Sweep(s, now) == SelectSeq(s, LAMBDA e : ~Expired(heap[e.obj], now))

\* The cleanup interval (lines 244-251).
Cleanup ==
    LET gone == {i \in 1 .. Len(alertedState) :
                    Expired(heap[alertedState[i].obj], clock)}
    IN  /\ gone # {}
        /\ alertedState' = Sweep(alertedState, clock)
        /\ removed' = [i \in Ids |->
                         IF \E k \in gone : alertedState[k].id = i
                         THEN [removed[i] EXCEPT !.sweep = @ + 1]
                         ELSE removed[i]]
        /\ UNCHANGED <<clock, lastNtfySendAt, heap, calls, settled, lastPostAt>>
        /\ UNCHANGED twoMapVars
        /\ UNCHANGED checkLoopVars
        /\ UNCHANGED extractVars

\* The instants at which the passing of time changes what the program
\* does: a sleep ends, a stored entry expires.
Instants ==
    {calls[p].wakeAt : p \in {q \in Procs : calls[q].pc = "sleep"}}
        \cup {Max(heap[alertedState[i].obj].primaryAt,
                  heap[alertedState[i].obj].secondaryAt) + CLEANUP_WINDOW_MS + 1 :
                 i \in 1 .. Len(alertedState)}

\* Time passes until the next such instant t. A post in flight settles
\* within the axios timeout.
Tick(t) ==
    /\ t > clock
    /\ t <= Horizon
    /\ \A u \in Instants : u > clock => t <= u
    /\ \A p \in Procs : calls[p].pc = "posting" =>
           t <= calls[p].postAt + POST_TIMEOUT_MS
    /\ clock' = t
    /\ UNCHANGED <<lastNtfySendAt, alertedState, heap, calls, removed, settled,
                   lastPostAt>>
    /\ UNCHANGED twoMapVars
    /\ UNCHANGED checkLoopVars
    /\ UNCHANGED extractVars

StoreInit ==
    /\ clock = StartTime
    /\ lastNtfySendAt = 0
    /\ alertedState = <<>>
    /\ heap = [p \in Procs |-> FreshState]
    /\ calls = [p \in Procs |-> IdleCall]
    /\ removed = [i \in Ids |-> [evict |-> 0, sweep |-> 0]]
    /\ settled = [call |-> 0, ok |-> TRUE]
    /\ lastPostAt = 0
    /\ alertedMessages = <<>>
    /\ alertedMessagesSecond = <<>>
    /\ evals = <<>>
    /\ lastAlertMessageId = <<>>
    /\ lastAlertValue = <<>>

Init ==
    /\ StoreInit
    /\ label = NullLabel
    /\ parsed = NotParsed
    /\ msg = <<>>
    /\ handled = <<>>

Next ==
    \/ \E p \in Procs, id \in Ids, v \in Values : Gateway(p, id, v)
    \/ \E p \in Procs, id \in Ids, v \in Values : Poll(p, id, v)
    \/ \E p \in Procs : WakeUp(p)
    \/ \E p \in Procs, ok \in BOOLEAN : PostReturn(p, ok)
    \/ Cleanup
    \/ \E t \in Instants : Tick(t)

\* The gateway handler and the polling passes interleave freely.
Spec == Init /\ [][Next]_vars

\* The values of the calls followed to their end: one in no band, one in
\* the secondary band, one in the primary band.
LiveValues == {SECONDARY_ABOVE, 250, SECONDARY_BELOW}

\* Calls of processHeartsFound that may overlap, as the iterations of
\* overlapping polling passes make them (the gateway handler calls the
\* same function), with the timers, the posts and the cleanup.
LiveNext ==
    \/ \E p \in Procs, id \in Ids, v \in LiveValues : Poll(p, id, v)
    \/ \E p \in Procs : WakeUp(p)
    \/ \E p \in Procs, ok \in BOOLEAN : PostReturn(p, ok)
    \/ Cleanup
    \/ \E t \in Instants : Tick(t)

\* What the runtime does on its own: a timer that is due fires, a post
\* settles (it resolves, is rejected, or is aborted by the axios timeout),
\* and time goes on.
Progress ==
    \/ \E p \in Procs : WakeUp(p)
    \/ \E p \in Procs, ok \in BOOLEAN : PostReturn(p, ok)
    \/ \E t \in Instants : Tick(t)

\* The runtime does not stop while one of these steps can be taken.
Fairness == WF_vars(Progress)

LiveSpec == Init /\ [][LiveNext]_vars /\ Fairness

SeqNext ==
    \/ \E p \in Procs, id \in Ids, v \in Values : SeqPoll(p, id, v)
    \/ \E p \in Procs : WakeUp(p)
    \/ \E p \in Procs, ok \in BOOLEAN : PostReturn(p, ok)
    \/ Cleanup
    \/ \E t \in Instants : Tick(t)

\* The evaluations run one after another (non-overlapping polling passes).
SeqSpec == Init /\ [][SeqNext]_vars

(***************************************************************************)
(* The two-map variant (src/monitor.js 346-382): per tier, a Map from       *)
(* message id to the value last alerted. Its sendNtfy has no rate limiter   *)
(* and catches a failed post. The calls run one after another.              *)
(***************************************************************************)
\* alertedMessages.get(messageId): <<>> for undefined, <<v>> for the number v.
TwoMapPrev(m, id) == IF id \in Keys(m) THEN <<m[MapGet(m, id)].obj>> ELSE <<>>

\* Variant: a tier fires only for an id it has never alerted.
TwoMapNeverAlerted(prev, v) == prev = <<>>

\* prev !== maxValue
TwoMapDiffers(prev, v) == prev # <<v>>

\* maxValue > 300
TwoMapMatchesPrimary(v) == v > TWO_MAP_PRIMARY_ABOVE

\* maxValue > 100 && maxValue < 600
TwoMapMatchesSecondary(v) == v > SECONDARY_ABOVE /\ v < SECONDARY_BELOW

\* map.set(messageId, maxValue); if (map.size > 200) delete the oldest key
TwoMapRecord(m, id, v) ==
    LET m1 == MapSet(m, id, v)
    IN  IF Len(m1) > Capacity THEN Tail(m1) ELSE m1

TwoMapWorld ==
    [evals |-> evals, first |-> alertedMessages, second |-> alertedMessagesSecond]

\* The secondary block up to its await, or to the end of the call.
TwoMapSecondary(w) ==
    LET n == Len(w.evals)
        e == w.evals[n]
    IN  IF /\ TwoMapMatchesSecondary(e.maxValue)
           /\ TwoMapDiffers(TwoMapPrev(w.second, e.id), e.maxValue)
        THEN [w EXCEPT !.evals[n].pc = "postSecondary",
                       !.evals[n].sent = Append(@, "secondary")]
        ELSE [w EXCEPT !.evals[n].pc = "done"]

\* The primary block up to its await, or on to the secondary block.
TwoMapPrimary(w) ==
    LET n == Len(w.evals)
        e == w.evals[n]
    IN  IF /\ TwoMapMatchesPrimary(e.maxValue)
           /\ TwoMapDiffers(TwoMapPrev(w.first, e.id), e.maxValue)
        THEN [w EXCEPT !.evals[n].pc = "postPrimary",
                       !.evals[n].sent = Append(@, "primary")]
        ELSE TwoMapSecondary(w)

\* Variant: the secondary block skipped once primary has fired (else-if).
TwoMapResumeElseIf(w) ==
    LET n == Len(w.evals)
        e == w.evals[n]
    IN  IF e.pc = "postPrimary"
        THEN [w EXCEPT !.first = TwoMapRecord(@, e.id, e.maxValue),
                       !.evals[n].pc = "done"]
        ELSE [w EXCEPT !.second = TwoMapRecord(@, e.id, e.maxValue),
                       !.evals[n].pc = "done"]

\* After `await sendNtfy(...)`: record the value in the tier's map, cap the
\* map, go on.
TwoMapResume(w) ==
    LET n == Len(w.evals)
        e == w.evals[n]
    IN  IF e.pc = "postPrimary"
        THEN TwoMapSecondary([w EXCEPT !.first = TwoMapRecord(@, e.id, e.maxValue)])
        ELSE [w EXCEPT !.second = TwoMapRecord(@, e.id, e.maxValue),
                       !.evals[n].pc = "done"]

TwoMapInstall(w) ==
    /\ evals' = w.evals
    /\ alertedMessages' = w.first
    /\ alertedMessagesSecond' = w.second
    /\ UNCHANGED <<clock, lastNtfySendAt, alertedState, heap, calls, removed,
                   settled, lastPostAt>>
    /\ UNCHANGED extractVars
    /\ UNCHANGED checkLoopVars

TwoMapUsedIds == {evals[i].id : i \in 1 .. Len(evals)}

\* processHeartsFound(v, id) of the two-map variant is called, the call
\* before it having returned.
TwoMapObserve(id, v) ==
    /\ Len(evals) < MaxSeqCalls
    /\ IF evals = <<>> THEN TRUE ELSE evals[Len(evals)].pc = "done"
    /\ IF id = 1 THEN TRUE ELSE (id - 1) \in TwoMapUsedIds
    /\ TwoMapInstall(TwoMapPrimary(
           [TwoMapWorld EXCEPT !.evals =
               Append(@, [id |-> id, maxValue |-> v, pc |-> "start",
                          sent |-> <<>>])]))

\* The post of the two-map sendNtfy settles, resolved or rejected.
TwoMapPostReturn(ok) ==
    /\ evals # <<>>
    /\ evals[Len(evals)].pc \in {"postPrimary", "postSecondary"}
    /\ TwoMapInstall(TwoMapResume(TwoMapWorld))

TwoMapNext ==
    \/ \E id \in Ids, v \in Values : TwoMapObserve(id, v)
    \/ \E ok \in BOOLEAN : TwoMapPostReturn(ok)

TwoMapSpec == Init /\ [][TwoMapNext]_vars

(***************************************************************************)
(* The single-map variant (src/monitor.js 111-138): one Map,                *)
(* alertedMessages, from message id to the value last alerted, and one      *)
(* threshold. sendPushoverAlert catches a failed post. The calls run one    *)
(* after another.                                                           *)
(***************************************************************************)
\* Variant: the threshold itself alerts.
SingleMapIgnoredBelow(v) == v < SINGLE_MAP_ABOVE

\* if (maxValue <= 150) return;
SingleMapIgnored(v) == v <= SINGLE_MAP_ABOVE

\* Variant: a repeat of the value is not suppressed.
SingleMapNeverSuppressed(prev, v) == prev # prev

\* previous && previous === maxValue
SingleMapSuppressed(prev, v) == prev # <<>> /\ prev = <<v>>

\* alertedMessages.set(messageId, maxValue); if (alertedMessages.size > 200)
\* delete the oldest key
SingleMapRecord(m, id, v) ==
    LET m1 == MapSet(m, id, v)
    IN  IF Len(m1) > Capacity THEN Tail(m1) ELSE m1

SingleMapWorld == [evals |-> evals, map |-> alertedMessages]

\* Lines 113-124: up to `await sendPushoverAlert(...)`, or to a return.
SingleMapBegin(w) ==
    LET n == Len(w.evals)
        e == w.evals[n]
    IN  IF SingleMapIgnored(e.maxValue)
        THEN [w EXCEPT !.evals[n].pc = "done"]
        ELSE IF SingleMapSuppressed(TwoMapPrev(w.map, e.id), e.maxValue)
             THEN [w EXCEPT !.evals[n].pc = "done"]
             ELSE [w EXCEPT !.evals[n].pc = "post",
                            !.evals[n].sent = Append(@, "alert")]

\* Lines 127-133, after the await: store the value, cap the map.
SingleMapResume(w) ==
    LET n == Len(w.evals)
        e == w.evals[n]
    IN  [w EXCEPT !.map = SingleMapRecord(@, e.id, e.maxValue),
                  !.evals[n].pc = "done"]

SingleMapInstall(w) ==
    /\ evals' = w.evals
    /\ alertedMessages' = w.map
    /\ UNCHANGED <<clock, lastNtfySendAt, alertedState, heap, calls, removed,
                   settled, lastPostAt, alertedMessagesSecond>>
    /\ UNCHANGED extractVars
    /\ UNCHANGED checkLoopVars

\* Representative values for the single threshold: below it, on it, just
\* above it and well above it.
SingleMapValues == {100, SINGLE_MAP_ABOVE, SINGLE_MAP_ABOVE + 1, 250}

\* processHeartsFound(v, id) of the single-map variant is called, the call
\* before it having returned.
SingleMapObserve(id, v) ==
    /\ Len(evals) < MaxSeqCalls
    /\ IF evals = <<>> THEN TRUE ELSE evals[Len(evals)].pc = "done"
    /\ IF id = 1 THEN TRUE ELSE (id - 1) \in TwoMapUsedIds
    /\ SingleMapInstall(SingleMapBegin(
           [SingleMapWorld EXCEPT !.evals =
               Append(@, [id |-> id, maxValue |-> v, pc |-> "start",
                          sent |-> <<>>])]))

\* The post of sendPushoverAlert settles, resolved or rejected (caught).
SingleMapPostReturn(ok) ==
    /\ evals # <<>>
    /\ evals[Len(evals)].pc = "post"
    /\ SingleMapInstall(SingleMapResume(SingleMapWorld))

SingleMapNext ==
    \/ \E id \in Ids, v \in SingleMapValues : SingleMapObserve(id, v)
    \/ \E ok \in BOOLEAN : SingleMapPostReturn(ok)

SingleMapSpec == Init /\ [][SingleMapNext]_vars

(***************************************************************************)
(* The single-slot polling variant (src/monitor.js 572-622,                 *)
(* src/unnamed/part_001 109-147): checkLoop, started by setInterval every   *)
(* 5 seconds whether or not the pass before it has returned, remembers the  *)
(* last alerted (message id, value) pair. A pass is a record of evals.      *)
(***************************************************************************)
\* extractHearts(msg) for the messages of a pass: no heart button, or one
\* with a value on the threshold, just above it or well above it.
CheckHearts ==
    {<<>>, <<CHECK_LOOP_ABOVE>>, <<CHECK_LOOP_ABOVE + 1>>, <<250>>}

\* What fetchLatestMessages() resolves to: up to MaxMsgs messages with
\* different ids.
CheckMessages ==
    {ms \in SeqsUpTo([id : Ids, hearts : CheckHearts], MaxMsgs) :
        \A i, j \in 1 .. Len(ms) : ms[i].id = ms[j].id => i = j}

\* The for loop: msgMax is Math.max(...extracted), -Infinity when nothing
\* was extracted; the first message holding the highest value wins.
RECURSIVE HighestFrom(_, _)
HighestFrom(ms, h) ==
    IF ms = <<>> THEN h
    ELSE IF IF Head(ms).hearts = <<>> THEN FALSE
            ELSE MaxOf(Head(ms).hearts) > h.value
         THEN HighestFrom(Tail(ms), [value |-> MaxOf(Head(ms).hearts),
                                     id |-> <<Head(ms).id>>])
         ELSE HighestFrom(Tail(ms), h)

\* let highestValue = 0; let highestMsgId = null; for (const msg of msgs) ...
Highest(ms) == HighestFrom(ms, [value |-> 0, id |-> <<>>])

\* highestMsgId === lastAlertMessageId && highestValue === lastAlertValue
SamePair(h) == h.id = lastAlertMessageId /\ <<h.value>> = lastAlertValue

CheckLoopUnchanged ==
    /\ UNCHANGED <<clock, lastNtfySendAt, alertedState, heap, calls, removed,
                   settled, lastPostAt, alertedMessages, alertedMessagesSecond>>
    /\ UNCHANGED extractVars

\* The interval timer calls checkLoop(): the pass awaits
\* fetchLatestMessages().
CheckLoop ==
    /\ Len(evals) < MaxCalls
    /\ evals' = Append(evals, [pc |-> "fetch", msgs |-> <<>>,
                               highest |-> Highest(<<>>), sent |-> FALSE])
    /\ UNCHANGED checkLoopVars
    /\ CheckLoopUnchanged

\* fetchLatestMessages() resolves to ms: the pass runs up to
\* `await sendPushoverAlert(...)`, or returns.
FetchReturn(n, ms) ==
    /\ n \in 1 .. Len(evals)
    /\ evals[n].pc = "fetch"
    /\ LET h    == Highest(ms)
           send == /\ ms # <<>>
                   /\ h.value > CHECK_LOOP_ABOVE
                   /\ ~SamePair(h)
       IN  evals' = [evals EXCEPT ![n] =
                        [pc |-> IF send THEN "send" ELSE "done",
                         msgs |-> ms, highest |-> h, sent |-> send]]
    /\ UNCHANGED checkLoopVars
    /\ CheckLoopUnchanged

\* sendPushoverAlert returns (it catches a failed post): the pair is saved.
AlertReturn(n, ok) ==
    /\ n \in 1 .. Len(evals)
    /\ evals[n].pc = "send"
    /\ lastAlertMessageId' = evals[n].highest.id
    /\ lastAlertValue' = <<evals[n].highest.value>>
    /\ evals' = [evals EXCEPT ![n].pc = "done"]
    /\ CheckLoopUnchanged

CheckLoopNext ==
    \/ CheckLoop
    \/ \E n \in 1 .. MaxCalls, ms \in CheckMessages : FetchReturn(n, ms)
    \/ \E n \in 1 .. MaxCalls, ok \in BOOLEAN : AlertReturn(n, ok)

CheckLoopSpec == Init /\ [][CheckLoopNext]_vars

(***************************************************************************)
(* The parser applied to one label.                                         *)
(***************************************************************************)
ParseInit ==
    /\ StoreInit
    /\ label \in Labels
    /\ parsed = NotParsed
    /\ msg = <<>>
    /\ handled = <<>>

\* safeParseIntFromLabel(label) returns.
ParseLabel ==
    /\ ~parsed.done
    /\ parsed' = [done |-> TRUE, val |-> SafeParseIntFromLabel(label)]
    /\ UNCHANGED <<clock, lastNtfySendAt, alertedState, heap, calls, removed,
                   settled, lastPostAt, label, msg, handled>>
    /\ UNCHANGED twoMapVars
    /\ UNCHANGED checkLoopVars

ParseNext == ParseLabel

ParseSpec == ParseInit /\ [][ParseNext]_vars

(***************************************************************************)
(* One message handled by the gateway handler and by a polling pass, each   *)
(* followed up to the first await of its processHeartsFound call.           *)
(***************************************************************************)
ExtractInit ==
    /\ StoreInit
    /\ label = NullLabel
    /\ parsed = NotParsed
    /\ msg \in Messages
    /\ handled = <<>>

\* The body both handlers share: extract, return when nothing was found,
\* else call processHeartsFound with the maximum.
HandleMessage(p, src, id) ==
    LET hearts == ExtractHeartsFromMessage(msg)
    IN  /\ \A i \in 1 .. Len(handled) : handled[i].src # src
        /\ CanStart(p)
        /\ IF hearts = <<>>
           THEN /\ handled' = Append(handled, [src |-> src, call |-> <<>>])
                /\ UNCHANGED <<clock, lastNtfySendAt, alertedState, heap, calls,
                               removed, settled, lastPostAt, label, parsed, msg>>
                /\ UNCHANGED twoMapVars
                /\ UNCHANGED checkLoopVars
           ELSE /\ p <= MaxCalls
                /\ ProcessHeartsFound(p, src, id, MaxOf(hearts))
                /\ handled' = Append(handled,
                                  [src |-> src,
                                   call |-> <<[p |-> p, v |-> MaxOf(hearts)]>>])

\* client.on("messageCreate") for msg.
GatewayMessage(p) == HandleMessage(p, "gateway", 1)

\* The iteration of pollingLoop's for loop for msg.
PollMessage(p) == HandleMessage(p, "poll", 1)

ExtractNext ==
    \/ \E p \in Procs : GatewayMessage(p)
    \/ \E p \in Procs : PollMessage(p)

ExtractSpec == ExtractInit /\ [][ExtractNext]_vars

(***************************************************************************)
(* extractHeartsFromMessage applied to one raw message.                     *)
(***************************************************************************)
RawInit ==
    /\ StoreInit
    /\ label = NullLabel
    /\ parsed = NotParsed
    /\ msg \in RawMessages
    /\ handled = <<>>

\* extractHeartsFromMessage(msg) ends.
Extract ==
    /\ handled = <<>>
    /\ handled' = <<[src |-> "extract", out |-> ExtractOutcome(msg)]>>
    /\ UNCHANGED <<clock, lastNtfySendAt, alertedState, heap, calls, removed,
                   settled, lastPostAt, label, parsed, msg>>
    /\ UNCHANGED twoMapVars
    /\ UNCHANGED checkLoopVars

RawNext == Extract

RawSpec == RawInit /\ [][RawNext]_vars

(***************************************************************************)
(* Properties                                                               *)
(***************************************************************************)
Started(p) == calls[p].pc # "idle"

Done(p) == calls[p].pc = "done"

Posted(p, t) == calls[p].posted[t] > 0

PostedNothing(p) == \A t \in Tiers : calls[p].posted[t] = 0

SameObservation(p, q) ==
    /\ Started(p) /\ Started(q)
    /\ calls[p].id = calls[q].id
    /\ calls[p].maxValue = calls[q].maxValue

\* The tiers whose band holds v: primary above 599, secondary strictly
\* between 100 and 600.
BandsOf(v) ==
    {t \in Tiers : IF t = "primary" THEN v > 599 ELSE (v > 100 /\ v < 600)}

HasEntry(id) == id \in Keys(alertedState)

EntryOf(id) == heap[alertedState[MapGet(alertedState, id)].obj]

\* C1: when the gateway handler and a polling pass observe the same message
\* id with the same value, each tier is dispatched by at most one of the
\* two evaluations, however they interleave.
C1_OneDispatchPerTierAcrossPaths ==
    \A p \in Procs, q \in Procs :
        (/\ SameObservation(p, q)
         /\ calls[p].src = "gateway"
         /\ calls[q].src = "poll")
        => \A t \in Tiers : ~(Posted(p, t) /\ Posted(q, t))

\* C2: when the evaluations of one message id run one after another and the
\* id's entry is neither evicted nor swept between them, each tier is
\* dispatched by at most one of them.
C2_TierAtMostOncePerEntry ==
    \A p \in Procs, q \in Procs :
        (/\ p < q
         /\ Started(p) /\ Started(q)
         /\ calls[p].id = calls[q].id
         /\ calls[p].ep = calls[q].ep)
        => \A t \in Tiers : ~(Posted(p, t) /\ Posted(q, t))

\* A later evaluation of the same id with another value of the same band
\* has returned without a dispatch, the tier having fired before.
C2_SecondValueSuppressed ==
    \E p \in Procs, q \in Procs, t \in Tiers :
        /\ p < q
        /\ Done(p) /\ Done(q)
        /\ calls[p].id = calls[q].id
        /\ calls[p].ep = calls[q].ep
        /\ calls[p].maxValue # calls[q].maxValue
        /\ t \in BandsOf(calls[p].maxValue) \cap BandsOf(calls[q].maxValue)
        /\ Posted(p, t)
        /\ PostedNothing(q)

\* C3: processHeartsFound(v, id) called again right after the first call
\* returned, with the same id and value, dispatches nothing.
C3_ImmediateRepeatDispatchesNothing ==
    \A p \in Procs :
        (/\ p + 1 \in Procs
         /\ SameObservation(p, p + 1)
         /\ calls[p].ep = calls[p + 1].ep)
        => PostedNothing(p + 1)

\* The first call dispatched, the immediate repeat returned without one.
C3_RepeatReturnedSilent ==
    \E p \in Procs :
        /\ p + 1 \in Procs
        /\ SameObservation(p, p + 1)
        /\ calls[p].ep = calls[p + 1].ep
        /\ \E t \in Tiers : Posted(p, t)
        /\ Done(p + 1)
        /\ PostedNothing(p + 1)

\* C4: once an alert has been dispatched for a message id with value v, no
\* later observation of the same id with the same v dispatches again,
\* whatever evictions and sweeps happen in between.
C4_NeverRealertSameValue ==
    \A p \in Procs, q \in Procs :
        (/\ SameObservation(p, q)
         /\ p \in calls[q].after
         /\ ~PostedNothing(p))
        => PostedNothing(q)

\* C4, as the code has it: once an evaluation has dispatched an alert for a
\* message id with value v and returned, a later observation of the same id
\* and value dispatches nothing as long as the object that evaluation wrote
\* is still the id's entry in the store.
C4_NoRealertWhileEntryKept ==
    \A p \in Procs, q \in Procs :
        (/\ SameObservation(p, q)
         /\ p \in calls[q].after
         /\ ~PostedNothing(p)
         /\ ~calls[q].fresh
         /\ calls[q].ref = calls[p].ref)
        => PostedNothing(q)

\* The value alerted, another value of the band came in between, and the
\* first value came back while the entry was still stored: no dispatch.
C4_ValueCameBackSilent ==
    \E p \in Procs, r \in Procs, q \in Procs :
        /\ p < r /\ r < q
        /\ SameObservation(p, q)
        /\ calls[r].id = calls[p].id
        /\ calls[r].maxValue # calls[p].maxValue
        /\ p \in calls[q].after
        /\ ~PostedNothing(p)
        /\ ~calls[q].fresh
        /\ calls[q].ref = calls[p].ref
        /\ Done(q)
        /\ PostedNothing(q)

\* C6: the store never holds more entries than its capacity, in any state
\* between two synchronous stretches of evaluations and sweeps.
C6_StoreWithinCapacity == Len(alertedState) <= Capacity

\* The store is full after an insertion at capacity evicted an entry.
C6_FullAfterEviction ==
    /\ Len(alertedState) = Capacity
    /\ \E id \in Ids : removed[id].evict > 0

C8_RemovedEntryRefires ==
    \A q \in Procs :
        (/\ Done(q)
         /\ calls[q].fresh
         /\ calls[q].ep.evict + calls[q].ep.sweep > 0)
        => \A t \in Tiers :
               calls[q].posted[t] = IF t \in BandsOf(calls[q].maxValue) THEN 1 ELSE 0

\* A tier that an earlier evaluation of the id had dispatched was dispatched
\* again by the first observation after the sweep removed the entry.
C8_RefiredAfterSweep ==
    \E p \in Procs, q \in Procs, t \in Tiers :
        /\ p < q
        /\ Done(q)
        /\ calls[p].id = calls[q].id
        /\ calls[q].fresh
        /\ calls[q].ep.sweep > calls[p].ep.sweep
        /\ Posted(p, t) /\ Posted(q, t)

\* The same after a capacity eviction removed the entry.
C8_RefiredAfterEviction ==
    \E p \in Procs, q \in Procs, t \in Tiers :
        /\ p < q
        /\ Done(q)
        /\ calls[p].id = calls[q].id
        /\ calls[q].fresh
        /\ calls[q].ep.evict > calls[p].ep.evict
        /\ Posted(p, t) /\ Posted(q, t)

\* C9: a dispatch that fails changes nothing in the state handling: when
\* the post settles, failed or not, the evaluation records the tier's marker
\* and lastValue; the post is attempted exactly once per firing; and a later
\* observation of the same id and value, the entry still stored, is
\* suppressed rather than retried.
C9_FailedDispatchRecordedAsSent ==
    /\ [][\A p \in Procs :
            (calls[p].pc = "posting" /\ calls'[p].pc = "done") =>
                /\ calls'[p].id \in Keys(alertedState')
                /\ LET st == heap'[alertedState'[MapGet(alertedState', calls'[p].id)].obj]
                   IN  /\ Marker(st, calls[p].tier) = calls[p].now
                       /\ st.lastValue = <<calls[p].maxValue>>
                /\ calls'[p].posted = calls[p].posted
        ]_vars
    /\ [](\A p \in Procs, t \in Tiers : calls[p].posted[t] <= 1)
    /\ [](\A p \in Procs, q \in Procs :
            (/\ p < q
             /\ settled.call = p /\ ~settled.ok
             /\ SameObservation(p, q)
             /\ calls[p].ep = calls[q].ep)
            => PostedNothing(q))

\* The post of an evaluation failed, the entry holds the tier's marker and
\* the value all the same, and the next observation of the same id and
\* value has returned without a dispatch.
C9_FailedThenSuppressed ==
    \E p \in Procs, q \in Procs, t \in Tiers :
        /\ p < q
        /\ settled.call = p /\ ~settled.ok
        /\ SameObservation(p, q)
        /\ calls[p].posted[t] = 1
        /\ HasEntry(calls[p].id)
        /\ Marker(EntryOf(calls[p].id), t) # 0
        /\ EntryOf(calls[p].id).lastValue = <<calls[p].maxValue>>
        /\ Done(q)
        /\ PostedNothing(q)

\* C10: any two consecutive posts of sendNtfy are at least NTFY_MIN_GAP_MS
\* apart, however concurrent evaluations interleave.
C10_PostsMinGapApart ==
    [][(\E p \in Procs, t \in Tiers : calls'[p].posted[t] > calls[p].posted[t])
          => (lastPostAt = 0 \/ clock - lastPostAt >= NTFY_MIN_GAP_MS)
      ]_vars

TwoMapFreshTriple(i) ==
    /\ i + 2 <= Len(evals)
    /\ evals[i + 2].pc = "done"
    /\ evals[i + 1].id = evals[i].id
    /\ evals[i + 2].id = evals[i].id
    /\ \A j \in 1 .. (i - 1) : evals[j].id # evals[i].id
    /\ evals[i].maxValue = 250
    /\ evals[i + 1].maxValue = 350
    /\ evals[i + 2].maxValue = 250

C11_FiredMarkerNeverUnset ==
    [][\A id \in Ids, t \in Tiers :
          (/\ id \in Keys(alertedState)
           /\ Marker(heap[alertedState[MapGet(alertedState, id)].obj], t) # 0
           /\ removed'[id] = removed[id])
          => /\ id \in Keys(alertedState')
             /\ Marker(heap'[alertedState'[MapGet(alertedState', id)].obj], t) # 0
      ]_vars

\* The last-arrived call for id (calls take their slots in arrival order).
LastArrival(id) ==
    CHOOSE q \in Procs :
        /\ Started(q) /\ calls[q].id = id
        /\ \A r \in Procs : (Started(r) /\ calls[r].id = id) => r <= q

\* C12: for one message id, once every evaluation in flight has completed,
\* the stored lastValue is the value of the observation that arrived last,
\* also when an earlier-arrived evaluation was suspended in a dispatch while
\* a later one ran.
C12_LastValueIsLastArrival ==
    \A id \in Ids :
        (/\ \E q \in Procs : Started(q) /\ calls[q].id = id
         /\ \A q \in Procs : (Started(q) /\ calls[q].id = id) => Done(q)
         /\ HasEntry(id)
         /\ removed[id] = calls[LastArrival(id)].ep)
        => EntryOf(id).lastValue = <<calls[LastArrival(id)].maxValue>>

\* C13: at no time are two evaluations of the same message id both between
\* their read of the store entry and their write-back of it.
C13_EvaluationsOfAnIdExclusive ==
    \A p \in Procs, q \in Procs :
        (p # q /\ InFlight(calls[p]) /\ InFlight(calls[q]))
        => calls[p].id # calls[q].id

\* The label's characters that are digits, k, K, m, M or '.', lowercased.
Cleaned(l) ==
    LET kept == SelectSeq(l.text,
                    LAMBDA c : c \in {"0", "1", "2", "3", "4", "5", "6", "7", "8",
                                      "9", "k", "K", "m", "M", "."})
    IN  [i \in 1 .. Len(kept) |->
            IF kept[i] = "K" THEN "k" ELSE IF kept[i] = "M" THEN "m" ELSE kept[i]]

AllDigits(s) == s # <<>> /\ \A i \in 1 .. Len(s) : IsDigit(s[i])

ButLast(s) == SubSeq(s, 1, Len(s) - 1)

\* C14: safeParseIntFromLabel drops every character other than digits, k, K,
\* m, M and '.', lowercases, and returns the prefix times 1000 for a
\* trailing k, times 1000000 for a trailing m, otherwise the integer parse;
\* "150", "1.5k", "2m" and a heart followed by "42" give 150, 1500, 2000000
\* and 42; the empty string, null and "abc" give not-a-number; it always
\* returns.
C14_ParserContract ==
    parsed.done =>
        /\ parsed.val = NotANumber \/ (Len(parsed.val) = 1 /\ parsed.val[1] \in Nat)
        /\ label = Str(<<"1", "5", "0">>) => parsed.val = <<150>>
        /\ label = Str(<<"1", ".", "5", "k">>) => parsed.val = <<1500>>
        /\ label = Str(<<"2", "m">>) => parsed.val = <<2000000>>
        /\ label = Str(<<"heart", "4", "2">>) => parsed.val = <<42>>
        /\ label = Str(<<>>) => parsed.val = NotANumber
        /\ label = NullLabel => parsed.val = NotANumber
        /\ label = Str(<<"a", "b", "c">>) => parsed.val = NotANumber
        /\ ~label.isNull =>
              LET s == Cleaned(label)
              IN  /\ parsed.val = SafeParseIntFromLabel(Str(s))
                  /\ s = <<>> => parsed.val = NotANumber
                  /\ AllDigits(s) => parsed.val = <<DecimalValue(s)>>
                  /\ (s # <<>> /\ AllDigits(ButLast(s)) /\ s[Len(s)] = "k")
                        => parsed.val = <<1000 * DecimalValue(ButLast(s))>>
                  /\ (s # <<>> /\ AllDigits(ButLast(s)) /\ s[Len(s)] = "m")
                        => parsed.val = <<1000000 * DecimalValue(ButLast(s))>>
                  /\ (s # <<>> /\ ~IsDigit(s[Len(s)]) /\ s[Len(s)] \notin {"k", "m"}
                        /\ AllDigits(ButLast(s)))
                        => parsed.val = <<DecimalValue(ButLast(s))>>

\* "1.5k" has been parsed to 1500.
C14_ParsedOneAndAHalfK ==
    /\ parsed.done
    /\ label = Str(<<"1", ".", "5", "k">>)
    /\ parsed.val = <<1500>>

\* The numbers the labels of msg parse to, over the components of its rows.
ParsedValues ==
    {n[1] : n \in
        {SafeParseIntFromLabel(msg[rc[1]].comps[rc[2]].label) :
            rc \in {rc \in (1 .. Len(msg)) \X (1 .. (MaxComps + 1)) :
                      /\ msg[rc[1]].has
                      /\ rc[2] <= Len(msg[rc[1]].comps)}}
        \ {NotANumber}}

\* C15: each handling of a message by the gateway handler or the polling
\* loop calls processHeartsFound exactly once, with the largest of the
\* numbers its labels parse to, when at least one label parses, and not at
\* all otherwise; a label that parses to not-a-number contributes nothing.
C15_CalledOnceWithMaximum ==
    /\ handled # <<>> =>
          LET values == ParsedValues
          IN  \A i \in 1 .. Len(handled) :
                IF values = {}
                THEN handled[i].call = <<>>
                ELSE /\ Len(handled[i].call) = 1
                     /\ handled[i].call[1].v \in values
                     /\ \A v \in values : v <= handled[i].call[1].v
                     /\ calls[handled[i].call[1].p].src = handled[i].src
                     /\ calls[handled[i].call[1].p].maxValue
                            = handled[i].call[1].v
    /\ Cardinality({p \in Procs : Started(p)})
           = Cardinality({i \in 1 .. Len(handled) : handled[i].call # <<>>})

\* A message with a label that gives 42 and a label that gives 1500 has
\* been handled by both paths, each calling processHeartsFound with 1500.
C15_BothPathsCalledWithMax ==
    /\ ParsedValues = {42, 1500}
    /\ Len(handled) = 2
    /\ \A i \in 1 .. 2 : handled[i].call # <<>> /\ handled[i].call[1].v = 1500

Returns(p) == calls[p].pc # "done" /\ calls'[p].pc = "done"

EntryAfter(id) == heap'[alertedState'[MapGet(alertedState', id)].obj]

\* C16: for an id with no entry in the store, a completed
\* processHeartsFound(v, id) leaves an entry for id with lastValue = v
\* (whether or not v is in a band), has dispatched exactly the tiers whose
\* band holds v (primary iff v > 599, secondary iff 100 < v < 600), and has
\* marked exactly those tiers as fired.
C16_FreshEntryFiresItsBands ==
    [][\A p \in Procs :
          (Returns(p) /\ calls'[p].fresh) =>
              /\ calls'[p].id \in Keys(alertedState')
              /\ EntryAfter(calls'[p].id).lastValue = <<calls'[p].maxValue>>
              /\ \A t \in Tiers :
                    IF t \in BandsOf(calls'[p].maxValue)
                    THEN /\ calls'[p].posted[t] = 1
                         /\ Marker(EntryAfter(calls'[p].id), t) # 0
                    ELSE /\ calls'[p].posted[t] = 0
                         /\ Marker(EntryAfter(calls'[p].id), t) = 0
      ]_vars

\* A call for an unseen id with 600 has returned: primary dispatched and
\* marked, secondary neither, lastValue 600.
C16_FreshPrimaryRecorded ==
    \E p \in Procs :
        /\ Done(p) /\ calls[p].fresh
        /\ calls[p].maxValue = 600
        /\ calls[p].posted = [t \in Tiers |-> IF t = "primary" THEN 1 ELSE 0]
        /\ HasEntry(calls[p].id)
        /\ EntryOf(calls[p].id).primaryAt # 0
        /\ EntryOf(calls[p].id).secondaryAt = 0
        /\ EntryOf(calls[p].id).lastValue = <<600>>

\* C17: for an id with an entry and an incoming value other than its
\* lastValue, a completed processHeartsFound sets lastValue to the new
\* value, has dispatched exactly the tiers whose band holds the new value
\* and whose marker was unset, has set those markers, and leaves the markers
\* of the tiers already fired set, also when the new value is outside their
\* band.
C17_UpdateFiresUnfiredBands ==
    [][\A p \in Procs :
          (/\ Returns(p)
           /\ ~calls'[p].fresh
           /\ calls'[p].read.lastValue # <<calls'[p].maxValue>>) =>
              /\ calls'[p].id \in Keys(alertedState')
              /\ EntryAfter(calls'[p].id).lastValue = <<calls'[p].maxValue>>
              /\ \A t \in Tiers :
                    /\ calls'[p].posted[t] =
                          IF /\ t \in BandsOf(calls'[p].maxValue)
                             /\ Marker(calls'[p].read, t) = 0
                          THEN 1 ELSE 0
                    /\ calls'[p].posted[t] = 1
                          => Marker(EntryAfter(calls'[p].id), t) # 0
                    /\ Marker(calls'[p].read, t) # 0
                          => Marker(EntryAfter(calls'[p].id), t) # 0
      ]_vars

\* An id whose secondary tier had fired was observed with 600: primary
\* dispatched, both markers set, lastValue 600.
C17_SecondTierAdded ==
    \E p \in Procs :
        /\ Done(p) /\ ~calls[p].fresh
        /\ calls[p].read.secondaryAt # 0
        /\ calls[p].maxValue = 600
        /\ calls[p].posted["primary"] = 1
        /\ HasEntry(calls[p].id)
        /\ EntryOf(calls[p].id).primaryAt # 0
        /\ EntryOf(calls[p].id).secondaryAt = calls[p].read.secondaryAt
        /\ EntryOf(calls[p].id).lastValue = <<600>>

\* C18: an observation whose value equals the stored lastValue of its id
\* leaves the whole store unchanged (no entry created, updated, reordered
\* or evicted, no timestamp refreshed) and dispatches nothing, wherever in
\* a sequence of observations it comes.
C18_RepeatIsNoOp ==
    [][\A p \in Procs :
          (/\ calls[p].pc = "idle" /\ calls'[p].pc # "idle"
           /\ HasEntry(calls'[p].id)
           /\ EntryOf(calls'[p].id).lastValue = <<calls'[p].maxValue>>) =>
              /\ alertedState' = alertedState
              /\ heap' = heap
              /\ removed' = removed
              /\ lastPostAt' = lastPostAt
              /\ calls'[p].pc = "done"
              /\ \A t \in Tiers : calls'[p].posted[t] = 0
      ]_vars

\* A repeat of the stored value, observed when the entry's timestamp was
\* more than the cleanup window old, has returned without a dispatch and
\* the entry still carries that timestamp.
C18_LateRepeatIgnored ==
    \E p \in Procs :
        /\ Done(p) /\ ~calls[p].fresh
        /\ calls[p].read.lastValue = <<calls[p].maxValue>>
        /\ PostedNothing(p)
        /\ HasEntry(calls[p].id)
        /\ EntryOf(calls[p].id) = calls[p].read
        /\ calls[p].read.secondaryAt # 0
        /\ clock > calls[p].read.secondaryAt + CLEANUP_WINDOW_MS

\* C19: at the moment a dispatch (sendNtfy) for a firing begins, the store
\* entry of the message id already holds the new lastValue and the fired
\* marker of the tier being dispatched.
C19_MutationBeforeDispatch ==
    [][\A p \in Procs, t \in Tiers :
          calls'[p].posted[t] > calls[p].posted[t] =>
              /\ calls'[p].id \in Keys(alertedState')
              /\ EntryAfter(calls'[p].id).lastValue = <<calls'[p].maxValue>>
              /\ Marker(EntryAfter(calls'[p].id), t) # 0
      ]_vars

TwoMapUnseen(i) == \A j \in 1 .. (i - 1) : evals[j].id # evals[i].id

\* C20: in the two-map variant (primary above 300, secondary strictly
\* between 100 and 600), one evaluation of a never-seen id with a value in
\* both bands dispatches both tiers in that call, primary before secondary.
C20_BothTiersPrimaryFirst ==
    \A i \in 1 .. Len(evals) :
        (/\ evals[i].pc = "done"
         /\ TwoMapUnseen(i)
         /\ evals[i].maxValue > 300
         /\ evals[i].maxValue < 600)
        => evals[i].sent = <<"primary", "secondary">>

\* The first evaluation of an id, with 350, has returned after both posts.
C20_BothDispatched ==
    \E i \in 1 .. Len(evals) :
        /\ evals[i].pc = "done"
        /\ TwoMapUnseen(i)
        /\ evals[i].maxValue = 350
        /\ Len(evals[i].sent) = 2
        /\ evals[i].id \in Keys(alertedMessages)
        /\ evals[i].id \in Keys(alertedMessagesSecond)

\* A step of the cleanup interval: the store changes and no call moves.
SweepStep == calls' = calls /\ alertedState' # alertedState

\* The later of an entry's two timestamps.
LastFired(e) ==
    IF heap[e.obj].primaryAt >= heap[e.obj].secondaryAt
    THEN heap[e.obj].primaryAt ELSE heap[e.obj].secondaryAt

\* s is t with some of its elements left out, the order kept.
RECURSIVE IsSubSeq(_, _)
IsSubSeq(s, t) ==
    IF s = <<>> THEN TRUE
    ELSE IF t = <<>> THEN FALSE
    ELSE IF Head(s) = Head(t) THEN IsSubSeq(Tail(s), Tail(t))
    ELSE IsSubSeq(s, Tail(t))

C22_SweptEntryNotReinserted ==
    [][\A p \in Procs :
          (/\ InFlight(calls[p])
           /\ calls'[p].pc = "done"
           /\ ~calls[p].fresh)
              => removed[calls[p].id].sweep = calls[p].ep.sweep]_vars

\* The well-formed elements of msg: those of rows that have components,
\* other than null elements.
WellFormed ==
    {msg[rc[1]].comps[rc[2]] :
        rc \in {rc \in (1 .. Len(msg)) \X (1 .. (MaxComps + 1)) :
                  /\ msg[rc[1]].has
                  /\ rc[2] <= Len(msg[rc[1]].comps)
                  /\ msg[rc[1]].comps[rc[2]] # NullComponent}}

\* C23: extractHeartsFromMessage never raises: for a message without rows,
\* with a row without elements or with an element that makes the body
\* throw, it returns a (possibly empty) sequence of integers, each of them
\* parsed from the label of a well-formed element; a malformed part
\* contributes no value.
C23_ExtractorNeverRaises ==
    \A i \in 1 .. Len(handled) :
        handled[i].src = "extract" =>
            /\ ~handled[i].out.raised
            /\ \A k \in 1 .. Len(handled[i].out.values) :
                  /\ handled[i].out.values[k] \in Nat
                  /\ \E comp \in WellFormed :
                        SafeParseIntFromLabel(comp.label)
                            = <<handled[i].out.values[k]>>
            /\ (\A r \in 1 .. Len(msg) : ~msg[r].has)
                  => handled[i].out.values = <<>>

\* A message holding a row without elements and a row with a null element
\* has been extracted, and the call returned the empty sequence.
C23_MalformedGaveEmpty ==
    /\ Len(handled) = 1
    /\ handled[1].src = "extract"
    /\ \E r \in 1 .. Len(msg) : ~msg[r].has
    /\ \E r \in 1 .. Len(msg) :
          msg[r].has /\ msg[r].comps = <<NullComponent>>
    /\ handled[1].out = [raised |-> FALSE, values |-> <<>>]

\* A call of the single-map variant begins: evals grows by the call.
SingleMapCalled == Len(evals') = Len(evals) + 1

SingleMapNew == evals'[Len(evals')]

DropAndReturn(i) ==
    /\ evals[i + 1].id = evals[i].id
    /\ evals[i + 2].id = evals[i].id
    /\ evals[i].maxValue > SINGLE_MAP_ABOVE
    /\ evals[i + 1].maxValue <= SINGLE_MAP_ABOVE
    /\ evals[i + 2].maxValue = evals[i].maxValue

\* C30: in the single-map variant an observation with a value of 150 or
\* less dispatches nothing and leaves alertedMessages unchanged; so a value
\* that drops to 150 or less and then returns to the value alerted before
\* is still suppressed.
C30_LowValueChangesNothing ==
    /\ [][(SingleMapCalled /\ SingleMapNew.maxValue <= SINGLE_MAP_ABOVE)
             => /\ SingleMapNew.sent = <<>>
                /\ SingleMapNew.pc = "done"
                /\ alertedMessages' = alertedMessages]_vars
    /\ [](\A i \in 1 .. (Len(evals) - 2) :
             DropAndReturn(i) => evals[i + 2].sent = <<>>)

\* An id alerted for 151 was observed with 150 and then with 151 again:
\* neither call sent anything and the map still holds 151.
C30_ReturnSuppressed ==
    /\ Len(evals) = 3
    /\ DropAndReturn(1)
    /\ evals[1].sent = <<"alert">> /\ evals[1].maxValue = SINGLE_MAP_ABOVE + 1
    /\ evals[2].sent = <<>> /\ evals[2].maxValue = SINGLE_MAP_ABOVE
    /\ evals[3].sent = <<>> /\ evals[3].pc = "done"
    /\ alertedMessages = <<[id |-> evals[1].id, obj |-> SINGLE_MAP_ABOVE + 1]>>

\* Pass n of the single-slot variant has got its messages.
Fetched(n) == evals[n].pc # "fetch"

\* C25: in the single-slot polling variant checkLoop sends an alert exactly
\* when the highest extracted value exceeds 150 and the pair (id of the
\* message holding it, value) differs from the last alerted pair, and then
\* records the pair; so consecutive passes over an unchanged list of
\* messages send at most one alert in total.
C25_UnchangedPassesAlertOnce ==
    \A i, j \in 1 .. Len(evals) :
        (/\ i < j
         /\ \A k \in i .. j : Fetched(k) /\ evals[k].msgs = evals[i].msgs)
            => ~(evals[i].sent /\ evals[j].sent)

\* C26: in the timestamped-state variant the two tiers are disjoint on
\* integers: no evaluation dispatches more than one notification; a value
\* of 600 dispatches primary only, a value in 101..599 secondary only, and
\* a value of 100 or less dispatches nothing.
C26_TiersDisjoint ==
    \A p \in Procs :
        Started(p) =>
            /\ calls[p].posted["primary"] + calls[p].posted["secondary"] <= 1
            /\ calls[p].maxValue = 600 => calls[p].posted["secondary"] = 0
            /\ calls[p].maxValue \in 101 .. 599 => calls[p].posted["primary"] = 0
            /\ calls[p].maxValue <= 100 => PostedNothing(p)
            /\ (Done(p) /\ calls[p].fresh /\ calls[p].maxValue = 600)
                  => calls[p].posted["primary"] = 1
            /\ (Done(p) /\ calls[p].fresh /\ calls[p].maxValue \in 101 .. 599)
                  => calls[p].posted["secondary"] = 1

\* One evaluation of 600 has dispatched primary alone and one evaluation
\* of a value between 101 and 599 secondary alone.
C26_EachTierAlone ==
    \E p, q \in Procs :
        /\ Done(p) /\ Done(q)
        /\ calls[p].maxValue = 600
        /\ calls[p].posted = [t \in Tiers |-> IF t = "primary" THEN 1 ELSE 0]
        /\ calls[q].maxValue \in 101 .. 599
        /\ calls[q].posted = [t \in Tiers |-> IF t = "secondary" THEN 1 ELSE 0]

\* Call p returns in this step, having passed the equal-value check.
WritesBack(p) == Returns(p) /\ ~SameValue(calls'[p].read, calls'[p].maxValue)

\* C27: when a processHeartsFound call that passed the equal-value check
\* completes, the store holds an entry for the id it evaluated, with the
\* value it recorded: the capacity eviction never removes the entry the
\* same call wrote.
C27_OwnEntrySurvivesEviction ==
    [][\A p \in Procs :
          WritesBack(p) =>
              /\ calls'[p].id \in Keys(alertedState')
              /\ EntryAfter(calls'[p].id).lastValue = <<calls'[p].maxValue>>]_vars

\* A call added a new id to a full store: the oldest entry was evicted and
\* the call's own entry is the one in the store.
C27_EvictedAnotherKeptOwn ==
    \E p \in Procs :
        /\ Done(p)
        /\ calls[p].fresh
        /\ KeySeq(alertedState) = <<calls[p].id>>
        /\ \E i \in Ids : i # calls[p].id /\ removed[i].evict > 0
        /\ removed[calls[p].id].evict = 0

\* Call p takes this step.
Moves(p) == calls'[p] # calls[p]

\* The entry of id i is in the store before and after the step, with the
\* same object holding the same content.
EntryKept(i) ==
    /\ i \in Keys(alertedState')
    /\ alertedState'[MapGet(alertedState', i)].obj
          = alertedState[MapGet(alertedState, i)].obj
    /\ heap'[alertedState'[MapGet(alertedState', i)].obj]
          = heap[alertedState[MapGet(alertedState, i)].obj]

NeverFired(e) == heap[e.obj].primaryAt = 0 /\ heap[e.obj].secondaryAt = 0

\* A tier of the entry fired within the window before the clock.
FiredWithinWindow(e) ==
    \/ heap[e.obj].primaryAt # 0
           /\ clock - heap[e.obj].primaryAt <= CLEANUP_WINDOW_MS
    \/ heap[e.obj].secondaryAt # 0
           /\ clock - heap[e.obj].secondaryAt <= CLEANUP_WINDOW_MS

\* C29: an entry for which no tier has ever fired (primaryAt = secondaryAt
\* = 0) is deleted by the sweep whenever the sweep runs next, however
\* recently it was observed; the entries a sweep leaves are entries with at
\* least one firing within the 15-minute window.
C29_NeverFiredEntrySwept ==
    LET left == Sweep(alertedState, clock)
    IN  /\ \A i \in 1 .. Len(alertedState) :
              NeverFired(alertedState[i])
                  => alertedState[i].id \notin Keys(left)
        /\ \A k \in 1 .. Len(left) : FiredWithinWindow(left[k])

\* A call for a value in no band stored its entry, and the sweep deleted
\* the entry at the very instant the call had observed it.
C29_SweptAtOnce ==
    \E p \in Procs :
        /\ Done(p)
        /\ calls[p].maxValue <= SECONDARY_ABOVE
        /\ calls[p].fresh
        /\ PostedNothing(p)
        /\ removed[calls[p].id].sweep = calls[p].ep.sweep + 1
        /\ alertedState = <<>>
        /\ clock = StartTime

\* Call p has returned and the entry of its id holds the value it recorded.
Recorded(p) ==
    /\ Done(p)
    /\ calls[p].id \in Keys(alertedState)
    /\ heap[alertedState[MapGet(alertedState, calls[p].id)].obj].lastValue
          = <<calls[p].maxValue>>

\* C31: every processHeartsFound call eventually completes, provided each
\* notification post returns, fails or times out: from some point on no
\* call is waiting for the rate limit or for a post, whatever the other
\* calls do; and a call that stops waiting (it has passed the equal-value
\* check) has returned with its value recorded in the store.
C31_EveryCallCompletes ==
    /\ <>[](\A p \in Procs : ~InFlight(calls[p]))
    /\ [][\A p \in Procs :
             (InFlight(calls[p]) /\ ~InFlight(calls'[p])) => Recorded(p)']_vars

\* A call that had to wait for the rate limit (it posted after the process
\* start time, within the first window) has returned with its value in the
\* store.
C31_WaitedAndRecorded ==
    \E p \in Procs :
        /\ Recorded(p)
        /\ ~PostedNothing(p)
        /\ lastPostAt > StartTime
        /\ lastPostAt <= StartTime + NTFY_MIN_GAP_MS
        /\ settled.call = p


====
